---- MODULE Spec2Model ----
(***************************************************************************)
(* The task execution state machine of PicScan (src/main.py) for one task  *)
(* id, together with the row loop of DataProcessor.process_excel           *)
(* (src/data_processor.py) that the worker thread runs.                    *)
(*                                                                         *)
(* Two threads act on the task: the asyncio event loop, which runs the     *)
(* request handlers and the coroutines process_task / resume_process_task, *)
(* and the worker thread started by asyncio.to_thread, which runs          *)
(* process_excel and its progress_callback.  A handler runs without        *)
(* interleaving with other code of the event loop; the worker thread       *)
(* interleaves with it at every step.  The part of a coroutine after its   *)
(* to_thread call is taken in two steps, up to and after the assignment of *)
(* the final status; the variable loop keeps every handler out in between. *)
(*                                                                         *)
(* Fault model: a file operation inside a run (the try-block of            *)
(* process_task / resume_process_task, its except-clause, and the          *)
(* progress callback) may fail; the file operations of the request         *)
(* handlers cancel_task and resume_task succeed.  The process may restart, *)
(* which loses the in-memory registry and every thread.                    *)
(***************************************************************************)
EXTENDS Integers, Sequences, FiniteSets, TLC

\* ------------------------------------------------------------------ bounds
MaxRows == 2        \* valid rows of the workbook range over 0..MaxRows
MaxRestarts == 1    \* process restarts in one behaviour
MaxExtra == 1       \* rows beyond the workbook's the result sequence may hold

VARIABLES
    archive,    \* the uploaded archive: is a workbook found, its valid rows
    tasks,      \* tasks[task_id]: the in-memory task record, or NoTask
    lock,       \* task_locks[task_id]: "free", or "worker" while held
    disk,       \* task_state.json: NoFile, Partial (truncated), or a snapshot
    csv,        \* task_<id>.csv: whether it exists, and its data rows
    run,        \* the coroutine/worker of the current run; saved: its except-clause
                \* wrote the snapshot
    loop,       \* what the event loop is in the middle of
    poll,       \* locals of a get_task_status call in progress
    reply,      \* the response of the latest request
    client,     \* a poller that feeds total_results back as last_index
    cancelAck,  \* history: the acknowledged cancel of this run, its rows, a resume after it
    restarts,
    cache,      \* image_cache.db: the rows of table image_cache, by image_hash
    call,       \* history: the latest recognize_image call and what it did
    seen,       \* history: per image content, the calls made on it so far
    args,       \* the arguments of a row-pipeline function applied by itself
    result      \* what that function returned, NotCalled before the call

\* The variables of the task machine and those of the recognizer.
taskvars == <<archive, tasks, lock, disk, csv, run, loop, poll, reply, client,
              cancelAck, restarts>>
recvars == <<cache, call, seen>>
rowvars == <<args, result>>
vars == <<taskvars, recvars, rowvars>>

NoTask == [status |-> "absent"]     \* task_id not in tasks
NoFile == [status |-> "nofile"]     \* task_state.json does not exist
Partial == [status |-> "partial"]   \* task_state.json holds a truncated record
NoCsv == [exists |-> FALSE, rows |-> <<>>]
NoAck == [acked |-> FALSE, rows |-> <<>>, resumed |-> FALSE]
None == -1

\* The result of the row pipeline for the i-th valid row: a record keyed by
\* the order id; the pipeline is a function of the row alone.
RowResult(i) == [order |-> i]

\* valid_rows of the workbook, in spreadsheet order.
ValidRows(n) == [i \in 1..n |-> RowResult(i)]

\* tasks[task_id] as upload_file creates it.
InitialTask ==
    [status |-> "processing", progress |-> 0, result |-> None, error |-> FALSE,
     partial_results |-> <<>>, total_rows |-> 0, processed_rows |-> 0,
     cancelled |-> FALSE]

\* The state dictionary save_task_state writes.
Snapshot(t) ==
    [status |-> t.status, progress |-> t.progress, result |-> t.result,
     error |-> t.error, partial_results |-> t.partial_results,
     total_rows |-> t.total_rows, processed_rows |-> t.processed_rows,
     cancelled |-> t.cancelled]

\* load_task_state: None when the file is missing or is not valid JSON.
load_task_state(d) == IF d \in {NoFile, Partial} THEN NoTask ELSE d

\* The outcomes of one save_task_state(task) on file d: written, open()
\* failed (file untouched), or json.dump failed (file truncated).
InterruptedWrite(d) == {[disk |-> d, ok |-> FALSE], [disk |-> Partial, ok |-> FALSE]}
save_task_state(d, t) == {[disk |-> Snapshot(t), ok |-> TRUE]} \cup InterruptedWrite(d)

\* A save_results without the early return for an empty list.
save_results_always(f, results) == [exists |-> TRUE, rows |-> results]

\* save_results: no file is written for an empty result list; otherwise the
\* file holds the header and one data row per result.
save_results(f, results) ==
    IF results = <<>> THEN f ELSE [exists |-> TRUE, rows |-> results]

\* progress = 15 + int((current / total) * 75); for the totals of this model
\* the float product truncates to the integer quotient.
Progress(current, total) == 15 + ((current * 75) \div total)

\* list[last_index:] of Python for last_index >= 0.
Slice(s, from) == IF from >= Len(s) THEN <<>> ELSE SubSeq(s, from + 1, Len(s))

\* The keyword arguments each coroutine passes to process_excel.
RunKwargs(kind) ==
    IF kind = "resume" THEN {"start_from_index", "existing_results"} ELSE {}

\* A process_excel that declares the two keywords and does nothing with them.
ProcessExcelKeywordsUnused == {"start_from_index", "existing_results"}

\* The keyword parameters process_excel declares besides excel_path and
\* progress_callback: none.
ProcessExcelKeywords == {}

\* Python raises TypeError for a keyword argument the callee does not declare.
CallAccepted(kwargs) == kwargs \subseteq ProcessExcelKeywords

\* ------------------------------------------------------------ recognizer
MaxCalls == 2       \* recognize_image calls on existing files in a behaviour

\* Image files: a path and the bytes it holds.  Two paths and three contents
\* make "the same bytes under another name" and "other bytes" both occur.
Names == {"image1.png", "image2.png"}
Contents == {<<0>>, <<1>>, <<0, 1>>}

\* The digest of a byte string; as for MD5 on real images, different strings
\* of the model get different digests, and no digest is the empty string.
RECURSIVE MD5(_)
MD5(bytes) == IF bytes = <<>> THEN 1 ELSE 2 * MD5(Tail(bytes)) + Head(bytes)

\* The empty string calculate_image_hash returns when the file cannot be read.
EmptyHash == 0

\* A digest that also depends on the path of the file.
calculate_path_hash(name, bytes, readable) ==
    IF readable THEN MD5(bytes) + (IF name = "image1.png" THEN 0 ELSE 100)
    ELSE EmptyHash

\* calculate_image_hash: the digest of the file's bytes, "" on any exception.
calculate_image_hash(name, bytes, readable) ==
    IF readable THEN MD5(bytes) ELSE EmptyHash

\* What easyocr can read from an image, as far as extract_speed looks at it:
\* the two numbers after the combined heading (pattern1), the number of an
\* upload line and the number of a download line, each None without a match.
NoSpeedText == [pair |-> <<>>, up |-> None, down |-> None]
PairText == [pair |-> <<30, 200>>, up |-> None, down |-> None]
UploadText == [pair |-> <<>>, up |-> 30, down |-> None]
Texts == {NoSpeedText, PairText, UploadText}

\* reader.readtext joined to one text: the engine is a function of the image
\* content; the contents of the model show no speed, the pair under the
\* combined heading, and an upload line alone.
readtext(bytes) ==
    IF bytes = <<0>> THEN NoSpeedText
    ELSE IF bytes = <<1>> THEN PairText
    ELSE UploadText

\* The reading with both values absent.
Absent == [upload_speed |-> None, download_speed |-> None]

\* extract_speed: the combined pattern first, else the upload and the
\* download patterns independently.
extract_speed(text) ==
    IF text.pair # <<>>
    THEN [upload_speed |-> text.pair[1], download_speed |-> text.pair[2]]
    ELSE [upload_speed |-> text.up, download_speed |-> text.down]

\* A row of table image_cache (without its two timestamps), and the None
\* that ImageCache.get returns without a row.
CacheRow(upload, download, text) ==
    [upload_speed |-> upload, download_speed |-> download, recognized_text |-> text]
NoRow == [found |-> FALSE]

\* ImageCache.get: the row stored under image_hash, None for "" or no row.
ImageCache_get(c, image_hash) ==
    IF image_hash # EmptyHash /\ image_hash \in DOMAIN c THEN c[image_hash] ELSE NoRow

\* An ImageCache.set that writes nothing.
ImageCache_set_dropped(c, image_hash, row) == c

\* ImageCache.set: INSERT OR REPLACE of the row; nothing for "".
ImageCache_set(c, image_hash, row) ==
    IF image_hash = EmptyHash THEN c
    ELSE [k \in DOMAIN c \cup {image_hash} |-> IF k = image_hash THEN row ELSE c[k]]

\* SpeedRecognizer() is always built with its default enable_cache=True.
enable_cache == TRUE

\* "if self.enable_cache and self.cache and image_hash"
CacheUsed(image_hash) == enable_cache /\ image_hash # EmptyHash

\* A hit test that wants a stored speed value.
HasSpeed(cached) ==
    cached # NoRow /\ (cached.upload_speed # None \/ cached.download_speed # None)

\* "if cached_result": the dictionary ImageCache.get returns for a row is
\* true whatever its values are.
IsHit(cached) == cached # NoRow

\* The cache after the except-clause of recognize_image: as it was.
CacheAfterFailure(c, image_hash) == c

\* The step of one recognize_image call that fails, if any: reading the file
\* for the digest, the sqlite statements of ImageCache.get, reader.readtext,
\* the sqlite statements of ImageCache.set.  A call in which several steps
\* fail ends as the call in which only the first of them to run fails.
Faults == {"none", "digest", "lookup", "engine", "store"}

\* The outcome of a call: the reading returned (or that an exception left the
\* call), the cache afterwards, whether reader.readtext was called, whether
\* the reading came from the cache, whether a row was written.
Outcome(ret, raised, c, engine, hit, stored) ==
    [ret |-> ret, raised |-> raised, cache |-> c, engine |-> engine,
     hit |-> hit, stored |-> stored]

\* The try-block of recognize_image and its except-clause.
RecognizeMiss(c, image_hash, text, f) ==
    IF f = "engine"
    THEN Outcome(Absent, FALSE, CacheAfterFailure(c, image_hash), TRUE, FALSE, FALSE)
    ELSE IF ~CacheUsed(image_hash)
    THEN Outcome(extract_speed(text), FALSE, c, TRUE, FALSE, FALSE)
    ELSE IF f = "store"
    THEN Outcome(Absent, FALSE, CacheAfterFailure(c, image_hash), TRUE, FALSE, FALSE)
    ELSE LET speed_result == extract_speed(text) IN
         Outcome(speed_result, FALSE,
                 ImageCache_set(c, image_hash,
                     CacheRow(speed_result.upload_speed, speed_result.download_speed, text)),
                 TRUE, FALSE, TRUE)

\* recognize_image on the file name holding bytes, with cache c and an
\* engine that reads text from these bytes.  ImageCache.get is called
\* outside the try-block, so its exception leaves recognize_image.
recognize_image(c, name, bytes, exists, text, f) ==
    IF ~exists THEN Outcome(Absent, FALSE, c, FALSE, FALSE, FALSE)
    ELSE LET image_hash == calculate_image_hash(name, bytes, f # "digest")
             cached_result == ImageCache_get(c, image_hash)
         IN  IF CacheUsed(image_hash) /\ f = "lookup"
             THEN Outcome(Absent, TRUE, c, FALSE, FALSE, FALSE)
             ELSE IF CacheUsed(image_hash) /\ IsHit(cached_result)
             THEN Outcome([upload_speed |-> cached_result.upload_speed,
                           download_speed |-> cached_result.download_speed],
                          FALSE, c, FALSE, TRUE, FALSE)
             ELSE RecognizeMiss(c, image_hash, text, f)

\* The evidence of one row: the state of the workbook's image-metadata
\* streams, whether the row's reference resolves in them and to which file,
\* whether that file is still there, and the state of the log file the row
\* names (one generation; the other is handled the same way).
StreamStates == {"ok", "absent", "malformed"}
LogStates == {"none", "missing", "unparsable", "ok"}
Evidence ==
    [streams : StreamStates, matched : BOOLEAN, name : Names, bytes : Contents,
     exists : BOOLEAN, log : LogStates]

\* extract_images_from_excel catches every exception: absent or malformed
\* streams leave both image tables empty, and no row resolves an image.
ImageResolved(e) == e.streams = "ok" /\ e.matched

\* parse_4g_log / parse_5g_log: the reduced sample of a readable log, else
\* the fields stay None (no name in the row, no such file, or an exception
\* while reading it, which the parser catches).
LogSample == 7
ParseLog(state) == IF state = "ok" THEN LogSample ELSE None

\* The body of the row loop of process_excel, up to results.append: the
\* reading of the row's image when one is resolved and exists, the fields of
\* the log; nothing in the loop catches what recognize_image raises.
process_row(c, e, f) ==
    LET speeds == IF ImageResolved(e) /\ e.exists
                  THEN recognize_image(c, e.name, e.bytes, TRUE, readtext(e.bytes), f)
                  ELSE Outcome(Absent, FALSE, c, FALSE, FALSE, FALSE)
    IN  [raised |-> speeds.raised,
         row |-> [speed |-> speeds.ret, log |-> ParseLog(e.log)],
         speeds |-> speeds]

\* No call yet; the history of one image content before any call on it.
NoCall == [op |-> "none"]
Unseen == [calls |-> 0, invoked |-> 0, stored |-> 0, readings |-> {},
           cached |-> {}, names |-> {}, since |-> None]

\* The history of an image content after a call on it under a name in
\* process run number n with outcome o: the calls, the engine invocations,
\* the rows written, the readings returned, those of them returned by a hit
\* or together with a row, the names used, the process run of the first call.
Record(h, name, n, o) ==
    [calls |-> h.calls + 1,
     invoked |-> h.invoked + (IF o.engine THEN 1 ELSE 0),
     stored |-> h.stored + (IF o.stored THEN 1 ELSE 0),
     readings |-> h.readings \cup (IF o.raised THEN {} ELSE {o.ret}),
     cached |-> h.cached \cup (IF o.hit \/ o.stored THEN {o.ret} ELSE {}),
     names |-> h.names \cup {name},
     since |-> IF h.calls = 0 THEN n ELSE h.since]

\* The recognizer before any call: an empty cache.  The task machine keeps
\* nothing of a row but its order id, so it runs with the recognizer at rest.
RecognizerAtRest ==
    /\ cache = <<>>
    /\ call = NoCall
    /\ seen = [b \in Contents |-> Unseen]

\* ------------------------------------------------------------ correlator
MaxImages == 2      \* entries of the descriptor table of a workbook

\* Text is a sequence of pieces: "A" and "B" stand for runs of digits of a
\* timestamp and a phone number, "x" for other text, "5G" and "4G" for the
\* chart keywords; " ", ":", "_", "--" and ".csv" are themselves.
strip(s) ==
    LET keep == {i \in 1..Len(s) : s[i] # " "} IN
    IF keep = {} THEN <<>>
    ELSE LET lo == CHOOSE i \in keep : \A j \in keep : i <= j
             hi == CHOOSE i \in keep : \A j \in keep : j <= i
         IN  SubSeq(s, lo, hi)

\* str.replace of one piece by another, and by nothing.
replace(s, old, new) == [i \in 1..Len(s) |-> IF s[i] = old THEN new ELSE s[i]]
remove(s, old) == SelectSeq(s, LAMBDA c : c # old)

\* s.split(sep)[0]: the text before the first separator, all of it without one.
BeforeSeparator(s, sep) ==
    LET at == {i \in 1..Len(s) : s[i] = sep} IN
    IF at = {} THEN s
    ELSE SubSeq(s, 1, (CHOOSE i \in at : \A j \in at : i <= j) - 1)

\* "sub in s" of Python: sub occurs in s as a contiguous run.
Contains(s, sub) ==
    \E i \in 0..(Len(s) - Len(sub)) : SubSeq(s, i + 1, i + Len(sub)) = sub

\* The header of the screenshot column and the two chart keywords.
SpeedColumn == <<"5G", "x">>
Keyword5G == <<"5G">>
Keyword4G == <<"4G">>

\* The columns of a row that name log files, as row_data holds them (the
\* empty text for a column the workbook lacks or an empty cell).
NoImage == "none"
EmptyText == <<>>

\* The fields get_image_for_row reads, in the order it reads them.
LegacyFields(row_data) ==
    <<row_data.log_4g_1, row_data.log_4g_2, row_data.log_5g_1, row_data.log_5g_2>>

\* All log-filename columns of a row: the merged ones and the legacy ones.
FieldsWithMerged(row_data) ==
    <<row_data.log_4g, row_data.log_5g>> \o LegacyFields(row_data)

\* The log-filename fields get_image_for_row looks at: the four legacy split
\* columns; the merged columns are not among them.
CandidateFields(row_data) == LegacyFields(row_data)

\* log_name of a field: stripped, colons to underscores, ".csv" removed; the
\* key is the stripped text before "--".
TimePhone(log) ==
    strip(BeforeSeparator(remove(replace(strip(log), ":", "_"), ".csv"), "--"))

\* target_keywords for the column.
target_keywords(column_name) ==
    IF Contains(column_name, Keyword5G) THEN {Keyword5G}
    ELSE IF Contains(column_name, Keyword4G) THEN {Keyword4G}
    ELSE {}

\* The two conditions on a descriptor: it contains the key and a target keyword.
DescriptorMatches(descr, time_phone, keywords) ==
    /\ Contains(descr, time_phone)
    /\ \E kw \in keywords : Contains(descr, kw)

\* The first entry of images, in the table's order, whose descriptor matches.
RECURSIVE FirstMatch(_, _, _)
FirstMatch(images, time_phone, keywords) ==
    IF images = <<>> THEN NoImage
    ELSE IF DescriptorMatches(Head(images).descr, time_phone, keywords)
    THEN Head(images).img
    ELSE FirstMatch(Tail(images), time_phone, keywords)

\* The loop over log_names: fields that are empty after strip are left out,
\* an empty key is skipped, the first match of the first key that has one is
\* returned.
RECURSIVE MatchLogNames(_, _, _)
MatchLogNames(logs, images, keywords) ==
    IF logs = <<>> THEN NoImage
    ELSE LET time_phone == TimePhone(Head(logs))
             found == FirstMatch(images, time_phone, keywords)
         IN  IF strip(Head(logs)) # <<>> /\ time_phone # <<>> /\ found # NoImage
             THEN found
             ELSE MatchLogNames(Tail(logs), images, keywords)

\* get_image_for_row: None for an empty table, else the strict match.
get_image_for_row(row_data, column_name, images) ==
    IF images = <<>> THEN NoImage
    ELSE MatchLogNames(CandidateFields(row_data), images, target_keywords(column_name))

\* The screenshot cell: whether its text contains DISPIMG and the identifier
\* the pattern DISPIMG("...") extracts from it, None without a match; or that
\* the workbook has no screenshot column.
NoSpeedColumn == [column |-> FALSE, dispimg |-> FALSE, id |-> NoImage]
SpeedCell(dispimg, id) == [column |-> TRUE, dispimg |-> dispimg, id |-> id]

\* get_image_by_dispimg_id: dict.get on the identifier table.
get_image_by_dispimg_id(dispimg_to_image, dispimg_id) ==
    IF dispimg_id \in DOMAIN dispimg_to_image THEN dispimg_to_image[dispimg_id]
    ELSE NoImage

\* A resolution that consults the descriptors whatever the identifier gave.
FallbackAlways(speed_5g_img) == TRUE

\* "if not speed_5g_img": the descriptors are consulted when the identifier
\* strategy gave no image.
FallbackNeeded(speed_5g_img) == speed_5g_img = NoImage

\* The image of a row (process_excel, "处理5G速率图"): by identifier when the
\* cell holds a DISPIMG expression, else or on a miss by descriptor; fallback
\* tells whether get_image_for_row was called.
speed_5g_img(row_data, cell, dispimg_to_image, images) ==
    IF ~cell.column THEN [img |-> NoImage, fallback |-> FALSE]
    ELSE LET by_id == IF cell.dispimg /\ cell.id # NoImage
                      THEN get_image_by_dispimg_id(dispimg_to_image, cell.id)
                      ELSE NoImage
         IN  IF FallbackNeeded(by_id)
             THEN [img |-> get_image_for_row(row_data, SpeedColumn, images),
                   fallback |-> TRUE]
             ELSE [img |-> by_id, fallback |-> FALSE]

\* The inputs of the correlator: values of a log-filename cell (empty, a
\* name with key A, a name whose key holds a colon, a name that starts with
\* the separator), rows in which one merged and two legacy columns vary,
\* screenshot cells, identifier tables, and descriptor tables of up to
\* MaxImages entries with distinct descriptors.
LogCells ==
    {EmptyText, <<"A", "--", "x", ".csv">>, <<" ", "A", ":", "B", "--", "x">>,
     <<"--", "x">>}
Rows ==
    {[log_4g |-> EmptyText, log_5g |-> m, log_4g_1 |-> a, log_4g_2 |-> EmptyText,
      log_5g_1 |-> EmptyText, log_5g_2 |-> b] : m \in LogCells, a \in LogCells, b \in LogCells}
SpeedCells ==
    {NoSpeedColumn, SpeedCell(FALSE, NoImage), SpeedCell(TRUE, NoImage),
     SpeedCell(TRUE, "ID_1"), SpeedCell(TRUE, "ID_2")}
IdTables == {<<>>, [id \in {"ID_1"} |-> "image1.png"], [id \in {"ID_1"} |-> "image2.png"]}
Descriptors ==
    {[descr |-> <<"A", "5G">>, img |-> "image1.png"],
     [descr |-> <<"A", "4G">>, img |-> "image2.png"],
     [descr |-> <<"x", "A", "_", "B", "5G">>, img |-> "image2.png"],
     [descr |-> <<"A", ":", "B", "x">>, img |-> "image1.png"]}
ImageTables ==
    UNION {{t \in [1..n -> Descriptors] : \A i, j \in 1..n : i # j => t[i] # t[j]} :
            n \in 0..MaxImages}

\* ----------------------------------------------------------- log reducer
MaxSamples == 3     \* data rows of a log file

\* A data row of a log as the parser reads it: the cell identity, the power
\* (RSRP or SS-RSRP), the SINR, longitude and latitude; None for a cell that
\* is empty (or holds the text none) and for a power float() rejects.  The
\* cell identity of row i of a file is i, so a result tells its row.
Sample(ci, rsrp, sinr, lon, lat) ==
    [ci |-> ci, rsrp |-> rsrp, sinr |-> sinr, lon |-> lon, lat |-> lat]

\* "必须CI、RSRP、SINR都不为空" and float(rsrp) succeeds.
Eligible(s) == s.ci # None /\ s.rsrp # None /\ s.sinr # None

\* A location test that is content with the longitude.
HasLongitude(s) == s.lon # None

\* has_location: both longitude and latitude are there.
HasLocation(s) == s.lon # None /\ s.lat # None

\* The row numbers of the eligible rows with and without location, in file
\* order.
rows_with_loc(log) ==
    SelectSeq([i \in 1..Len(log) |-> i],
              LAMBDA i : Eligible(log[i]) /\ HasLocation(log[i]))
rows_without_loc(log) ==
    SelectSeq([i \in 1..Len(log) |-> i],
              LAMBDA i : Eligible(log[i]) /\ ~HasLocation(log[i]))

\* list.sort(key=lambda x: x[0]): ascending by power, rows of equal power in
\* the order they had.
RECURSIVE Insert(_, _, _)
Insert(log, sorted, i) ==
    IF sorted = <<>> THEN <<i>>
    ELSE IF log[Head(sorted)].rsrp <= log[i].rsrp
    THEN <<Head(sorted)>> \o Insert(log, Tail(sorted), i)
    ELSE <<i>> \o sorted

\* A sort that leaves the rows in file order.
unsorted(log, rows) == rows

RECURSIVE sort(_, _)
sort(log, rows) ==
    IF rows = <<>> THEN <<>>
    ELSE Insert(log, sort(log, SubSeq(rows, 1, Len(rows) - 1)), rows[Len(rows)])

\* The lower of the two middle positions (0-based) of an even count.
lower_median_idx(count) == (count - 1) \div 2

\* median_idx = len(rows) // 2, a 0-based index.
median_idx(count) == count \div 2

\* The row at the median index of the sorted rows.
MedianOf(log, rows) == sort(log, rows)[median_idx(Len(rows)) + 1]

\* "rows_with_loc if rows_with_loc else rows_without_loc"
selected_rows(with_loc, without_loc) ==
    IF with_loc # <<>> THEN with_loc ELSE without_loc

\* The xlsx branch of parse_4g_log: the median row of the selected rows, 0
\* when no row is eligible.
median_row_idx_4g(log) ==
    LET selected == selected_rows(rows_with_loc(log), rows_without_loc(log)) IN
    IF selected # <<>> THEN MedianOf(log, selected) ELSE 0

\* The csv branch of parse_4g_log and both branches of parse_5g_log: the
\* median row of the rows with location if there are any, else of the rows
\* without, else none.
median_row(log) ==
    IF rows_with_loc(log) # <<>>
    THEN MedianOf(log, rows_with_loc(log))
    ELSE IF rows_without_loc(log) # <<>>
    THEN MedianOf(log, rows_without_loc(log))
    ELSE 0

\* The result of parse_4g_log for a readable log file of either format.
NoLog4G == [lon |-> None, lat |-> None, ECI |-> None, RSRP |-> None, SINR |-> None]
parse_4g_log(format, log) ==
    LET i == IF format = "xlsx" THEN median_row_idx_4g(log) ELSE median_row(log) IN
    IF i = 0 THEN NoLog4G
    ELSE [lon |-> log[i].lon, lat |-> log[i].lat, ECI |-> log[i].ci,
          RSRP |-> log[i].rsrp, SINR |-> log[i].sinr]

\* The result of parse_5g_log.
NoLog5G == [lon_5G |-> None, lat_5G |-> None, NR_CI |-> None, SS_RSRP |-> None,
            SS_SINR |-> None]
parse_5g_log(format, log) ==
    LET i == median_row(log) IN
    IF i = 0 THEN NoLog5G
    ELSE [lon_5G |-> log[i].lon, lat_5G |-> log[i].lat, NR_CI |-> log[i].ci,
          SS_RSRP |-> log[i].rsrp, SS_SINR |-> log[i].sinr]

\* The inputs of the reducer.  A row is eligible with one of three powers
\* and with both coordinates, the longitude alone or neither, or it lacks
\* its cell identity, its power or its SINR.
Powers == {1, 2, 3}
Longitude == 113
Latitude == 23
Sinr == 5
RowShapes ==
    {Sample(0, p, Sinr, loc[1], loc[2]) :
        p \in Powers,
        loc \in {<<Longitude, Latitude>>, <<Longitude, None>>, <<None, None>>}}
    \cup {Sample(None, 1, Sinr, Longitude, Latitude),
          Sample(0, None, Sinr, Longitude, Latitude),
          Sample(0, 1, None, Longitude, Latitude)}
RowAt(i, s) == IF s.ci = None THEN s ELSE [s EXCEPT !.ci = i]
BoundedLog(n, shapes) == [i \in 1..n |-> RowAt(i, shapes[i])]

\* Logs whose rows all have a location, with the given powers; a log of one
\* row with location followed by nine without.
LocatedLog(powers) ==
    [i \in 1..Len(powers) |-> Sample(i, powers[i], Sinr, Longitude, Latitude)]
OneInTen ==
    [i \in 1..10 |-> IF i = 1 THEN Sample(i, 3, Sinr, Longitude, Latitude)
                     ELSE Sample(i, 1, Sinr, None, None)]
ExampleLogs ==
    {LocatedLog(<<1, 2, 3, 4>>), LocatedLog(<<-90, -95, -80>>), OneInTen}
Formats == {"csv", "xlsx"}

\* ------------------------------------------------------- location merge
\* log_4g_data / log_5g_data of a row that names no log of the generation
\* (or whose log directory is missing): None.
NoLogData == [parsed |-> FALSE]

\* A test that is content with one coordinate.
EitherPresent(lon, lat) == lon # None \/ lat # None

\* "if lon and lat": the parsers return a coordinate as non-empty text or
\* None, so the test is that both are there.
BothPresent(lon, lat) == lon # None /\ lat # None

\* "经纬度处理" of process_excel: the pair of the 5G data when it has both
\* values; while a value is still None, the pair of the 4G data when it has
\* both.
merge_location(log_5g_data, log_4g_data) ==
    LET first == IF log_5g_data # NoLogData
                    /\ BothPresent(log_5g_data.lon_5G, log_5g_data.lat_5G)
                 THEN [lon |-> log_5g_data.lon_5G, lat |-> log_5g_data.lat_5G]
                 ELSE [lon |-> None, lat |-> None]
    IN  IF (first.lon = None \/ first.lat = None)
           /\ log_4g_data # NoLogData
           /\ BothPresent(log_4g_data.lon, log_4g_data.lat)
        THEN [lon |-> log_4g_data.lon, lat |-> log_4g_data.lat]
        ELSE first

\* The inputs of the merge: per generation no data, or the representative
\* sample with each coordinate absent or one of two values.
Longitudes == {None, Longitude, Longitude + 1}
Latitudes == {None, Latitude, Latitude + 1}
LogData4G ==
    {[lon |-> x, lat |-> y, ECI |-> 1, RSRP |-> 1, SINR |-> Sinr] :
        x \in Longitudes, y \in Latitudes} \cup {NoLogData}
LogData5G ==
    {[lon_5G |-> x, lat_5G |-> y, NR_CI |-> 1, SS_RSRP |-> 1, SS_SINR |-> Sinr] :
        x \in Longitudes, y \in Latitudes} \cup {NoLogData}

\* --------------------------------------------------- progress arithmetic
MaxTotal == 15      \* valid rows of a workbook whose progress is computed

\* A positive double: the bits of its significand, most significant first,
\* and the binary exponent of the last of them; the value is the number the
\* bits spell times 2^exp.
Mantissa == 53
Double(bits, exp) == [bits |-> bits, exp |-> exp]

\* The bits so far followed by n more bits of the binary expansion of r / t
\* for 0 <= r < t, and the remainder.
RECURSIVE Expansion(_, _, _, _)
Expansion(r, t, n, sofar) ==
    IF n = 0 THEN [bits |-> sofar, rem |-> r]
    ELSE IF 2 * r >= t
    THEN Expansion(2 * r - t, t, n - 1, Append(sofar, 1))
    ELSE Expansion(2 * r, t, n - 1, Append(sofar, 0))

\* The bits plus one.
RECURSIVE Increment(_)
Increment(bits) ==
    IF bits = <<>> THEN <<1>>
    ELSE IF bits[Len(bits)] = 0
    THEN SubSeq(bits, 1, Len(bits) - 1) \o <<1>>
    ELSE Increment(SubSeq(bits, 1, Len(bits) - 1)) \o <<0>>

\* A rounding that drops what does not fit.
RoundTowardZero(bits, exp, sticky) ==
    IF Len(bits) <= Mantissa THEN Double(bits, exp)
    ELSE Double(SubSeq(bits, 1, Mantissa), exp + Len(bits) - Mantissa)

\* IEEE 754 round-to-nearest, ties to even, of the exact value spelled by
\* bits (first bit 1) times 2^exp, plus a rest below the last bit that is
\* not zero when sticky.
RoundToNearestEven(bits, exp, sticky) ==
    IF Len(bits) <= Mantissa THEN Double(bits, exp)
    ELSE LET keep == SubSeq(bits, 1, Mantissa)
             dropped == SubSeq(bits, Mantissa + 1, Len(bits))
             more == sticky \/ \E i \in 2..Len(dropped) : dropped[i] = 1
             up == dropped[1] = 1 /\ (more \/ keep[Mantissa] = 1)
         IN  Double(IF up THEN Increment(keep) ELSE keep, exp + Len(dropped))

\* The position of the first 1 in the binary expansion of current / total.
RECURSIVE FirstBit(_, _, _)
FirstBit(r, t, i) == IF 2 * r >= t THEN i ELSE FirstBit(2 * r, t, i + 1)

\* current / total of Python for 1 <= current <= total: the double nearest
\* to the quotient.
truediv(current, total) ==
    IF current = total THEN Double(<<1>>, 0)
    ELSE LET z == FirstBit(current, total, 1)
             n == z + Mantissa
             e == Expansion(current, total, n, <<>>)
         IN  RoundToNearestEven(SubSeq(e.bits, z, n), 0 - n, e.rem # 0)

\* The bits, least significant first, of k times the number that bits spell
\* least significant first, plus carry.
RECURSIVE TimesReversed(_, _, _)
TimesReversed(bits, k, carry) ==
    IF bits = <<>>
    THEN IF carry = 0 THEN <<>> ELSE <<carry % 2>> \o TimesReversed(<<>>, k, carry \div 2)
    ELSE LET v == Head(bits) * k + carry IN
         <<v % 2>> \o TimesReversed(Tail(bits), k, v \div 2)
Reverse(s) == [i \in 1..Len(s) |-> s[Len(s) + 1 - i]]

\* x * k of Python for a double x and a small positive integer k: the double
\* nearest to the product.
float_mul(x, k) ==
    RoundToNearestEven(Reverse(TimesReversed(Reverse(x.bits), k, 0)), x.exp, FALSE)

\* int(x) for a positive double below 2^31: the whole part.
RECURSIVE Spelled(_)
Spelled(bits) ==
    IF bits = <<>> THEN 0
    ELSE 2 * Spelled(SubSeq(bits, 1, Len(bits) - 1)) + bits[Len(bits)]
int(x) ==
    IF x.exp >= 0 THEN Spelled(x.bits \o [i \in 1..x.exp |-> 0])
    ELSE IF Len(x.bits) + x.exp <= 0 THEN 0
    ELSE Spelled(SubSeq(x.bits, 1, Len(x.bits) + x.exp))

\* progress = 15 + int((current / total) * 75), in doubles as Python
\* computes it.
progress_callback_progress(current, total) ==
    15 + int(float_mul(truediv(current, total), 75))

\* No function of the row pipeline is under study: no arguments, no call.
NoArgs == [op |-> "none"]
NotCalled == [called |-> FALSE]
RowPipelineAtRest == args = NoArgs /\ result = NotCalled

IdleRun == [kind |-> "none", pc |-> "none", idx |-> 0, failure |-> "none",
            saved |-> FALSE]
NoPoll == [last_index |-> 0, new_results |-> <<>>]
NoReply == [op |-> "none"]

Init ==
    /\ archive \in [workbook : BOOLEAN, rows : 0..MaxRows]
    /\ tasks = NoTask
    /\ lock = "free"
    /\ disk = NoFile
    /\ csv = NoCsv
    /\ run = IdleRun
    /\ loop = "idle"
    /\ poll = NoPoll
    /\ reply = NoReply
    /\ client = [cursor |-> 0, seen |-> <<>>]
    /\ cancelAck = NoAck
    /\ restarts = 0
    /\ RecognizerAtRest
    /\ RowPipelineAtRest

\* The event loop can start a request handler or resume a coroutine: no
\* handler is in progress and no freshly created coroutine is queued ahead.
LoopIdle == loop = "idle" /\ run.pc # "spawned"

\* The task as a handler sees it after its "load from disk if not in memory".
Loaded == IF tasks # NoTask THEN tasks ELSE load_task_state(disk)

\* ---------------------------------------------------------------- submit
\* upload_file: a new task id, its record, lock and first snapshot, and the
\* process_task coroutine.
upload_file ==
    /\ LoopIdle
    /\ run.kind = "none" /\ restarts = 0
    /\ tasks' = InitialTask
    /\ lock' = "free"
    /\ disk' = Snapshot(InitialTask)
    /\ run' = [kind |-> "process", pc |-> "spawned", idx |-> 0, failure |-> "none",
               saved |-> FALSE]
    /\ reply' = [op |-> "submit"]
    /\ UNCHANGED <<archive, csv, loop, poll, client, cancelAck, restarts>>
    /\ UNCHANGED <<recvars, rowvars>>

\* An except-clause that also drops the rows collected so far.
ErrorStatusDroppingRows(t) ==
    [t EXCEPT !.status = "error", !.error = TRUE, !.partial_results = <<>>]

\* The except-clause of process_task / resume_process_task on task t with
\* state file d: status error, then the metadata and the snapshot are
\* written; a failure there leaves the file as the write left it (when the
\* metadata cannot be written the snapshot is not attempted).
ErrorStatus(t) == [t EXCEPT !.status = "error", !.error = TRUE]

\* An except-clause that sets the status and writes no snapshot.
ExceptClauseWithoutSnapshot(t, d) ==
    {[tasks |-> ErrorStatus(t), disk |-> d, ok |-> TRUE]}

\* The outcomes of the except-clause: the task, the file, and whether the
\* snapshot was written.
ExceptClause(t, d) ==
    {[tasks |-> ErrorStatus(t), disk |-> o.disk, ok |-> o.ok] :
        o \in save_task_state(d, ErrorStatus(t))}

\* The first step of process_task / resume_process_task: find the workbook,
\* progress 5, 10, 15, then hand process_excel to a worker thread.
Setup ==
    /\ loop = "idle" /\ run.pc = "spawned"
    /\ IF archive.workbook
       THEN /\ tasks' = [tasks EXCEPT !.progress = 15]
            /\ run' = [run EXCEPT !.pc = "call"]
            /\ disk' = disk
       ELSE \E o \in ExceptClause([tasks EXCEPT !.progress = 5], disk) :
                /\ tasks' = o.tasks
                /\ disk' = o.disk
                /\ run' = [run EXCEPT !.pc = "done", !.failure = "setup",
                                      !.saved = o.ok]
    /\ UNCHANGED <<archive, lock, csv, loop, poll, reply, client, cancelAck, restarts>>
    /\ UNCHANGED <<recvars, rowvars>>

\* ----------------------------------------------------------- worker thread
\* The worker thread exists only while the registry holds the task.
\* process_excel is called: a keyword argument it does not declare raises
\* TypeError; otherwise the workbook is loaded (which may fail: unreadable
\* workbook, no order-id column) and the valid rows are counted.
WorkerCall ==
    /\ run.pc = "call"
    /\ \/ /\ ~CallAccepted(RunKwargs(run.kind))
          /\ run' = [run EXCEPT !.pc = "raised", !.failure = "typeerror"]
       \/ /\ CallAccepted(RunKwargs(run.kind))
          /\ \E loaded \in BOOLEAN :
                run' = IF ~loaded
                       THEN [run EXCEPT !.pc = "raised", !.failure = "workbook"]
                       ELSE [run EXCEPT !.idx = 0,
                               !.pc = IF archive.rows = 0 THEN "returned" ELSE "row"]
    /\ UNCHANGED <<archive, tasks, lock, disk, csv, loop, poll, reply, client,
                   cancelAck, restarts>>
    /\ UNCHANGED <<recvars, rowvars>>

\* A row loop that takes every second valid row.
WorkerRowSkipping ==
    /\ run.pc = "row"
    /\ run' = [run EXCEPT !.idx = run.idx + 2, !.pc = "cb_enter"]
    /\ UNCHANGED <<archive, tasks, lock, disk, csv, loop, poll, reply, client,
                   cancelAck, restarts>>
    /\ UNCHANGED <<recvars, rowvars>>

\* One pass of the row loop up to the callback: the row's result is built
\* from its evidence and appended to the local results; an exception that
\* leaves the loop body ends the thread.
WorkerRow ==
    /\ run.pc = "row"
    /\ \E e \in Evidence, f \in Faults :
          run' = IF process_row(cache, e, f).raised
                 THEN [run EXCEPT !.pc = "raised", !.failure = "row"]
                 ELSE [run EXCEPT !.idx = run.idx + 1, !.pc = "cb_enter"]
    /\ UNCHANGED <<archive, tasks, lock, disk, csv, loop, poll, reply, client,
                   cancelAck, restarts>>
    /\ UNCHANGED <<recvars, rowvars>>

\* What process_excel does with the callback's return value after row idx.
AfterCallback(should_continue, idx, total) ==
    IF should_continue /\ idx < total THEN "row" ELSE "returned"

\* A callback that never looks at the cancellation flag.
CancelIgnored(t) == FALSE

\* The callback's test of the cancellation flag, before anything is appended.
CancelRequested(t) == t.cancelled

\* progress_callback takes the lock and checks the cancellation flag: when
\* it is set the callback returns False (the lock is released) and
\* process_excel leaves its loop.
CallbackEnter ==
    /\ run.pc = "cb_enter" /\ lock = "free"
    /\ IF CancelRequested(tasks)
       THEN /\ run' = [run EXCEPT !.pc = AfterCallback(FALSE, run.idx, archive.rows)]
            /\ lock' = lock
       ELSE /\ run' = [run EXCEPT !.pc = "cb_append"]
            /\ lock' = "worker"
    /\ UNCHANGED <<archive, tasks, disk, csv, loop, poll, reply, client,
                   cancelAck, restarts>>
    /\ UNCHANGED <<recvars, rowvars>>

\* partial_results.append(result)
CallbackAppend ==
    /\ run.pc = "cb_append"
    /\ Len(tasks.partial_results) < archive.rows + MaxExtra
    /\ tasks' = [tasks EXCEPT !.partial_results = Append(@, RowResult(run.idx))]
    /\ run' = [run EXCEPT !.pc = "cb_counters"]
    /\ UNCHANGED <<archive, lock, disk, csv, loop, poll, reply, client,
                   cancelAck, restarts>>
    /\ UNCHANGED <<recvars, rowvars>>

\* total_rows, processed_rows and progress are set from the callback's
\* arguments (current = idx, total = the number of valid rows).
CallbackCounters ==
    /\ run.pc = "cb_counters"
    /\ tasks' = [tasks EXCEPT !.total_rows = archive.rows,
                              !.processed_rows = run.idx,
                              !.progress = Progress(run.idx, archive.rows)]
    /\ run' = [run EXCEPT !.pc = "cb_save"]
    /\ UNCHANGED <<archive, lock, disk, csv, loop, poll, reply, client,
                   cancelAck, restarts>>
    /\ UNCHANGED <<recvars, rowvars>>

\* A callback that swallows the failure of save_task_state and returns True.
OnSnapshotFailureSwallowed(idx, total) == IF idx < total THEN "row" ELSE "returned"

\* Where the worker goes when save_task_state raises inside the callback:
\* nothing catches it before process_task's except-clause.
OnSnapshotFailure(idx, total) == "raised"

\* save_task_state opens the state file for writing, which truncates it; a
\* failure propagates out of the callback (the lock is released) and out of
\* process_excel.
CallbackOpen ==
    /\ run.pc = "cb_save"
    /\ \E opened \in BOOLEAN :
          IF opened
          THEN /\ disk' = Partial
               /\ run' = [run EXCEPT !.pc = "cb_dump"]
               /\ lock' = lock
          ELSE /\ disk' = disk
               /\ run' = [run EXCEPT !.pc = OnSnapshotFailure(run.idx, archive.rows),
                                     !.failure = "snapshot"]
               /\ lock' = "free"
    /\ UNCHANGED <<archive, tasks, csv, loop, poll, reply, client, cancelAck, restarts>>
    /\ UNCHANGED <<recvars, rowvars>>

\* json.dump writes the snapshot; then the lock is released and the callback
\* returns True.
CallbackDump ==
    /\ run.pc = "cb_dump"
    /\ \E written \in BOOLEAN :
          IF written
          THEN /\ disk' = Snapshot(tasks)
               /\ run' = [run EXCEPT !.pc = AfterCallback(TRUE, run.idx, archive.rows)]
          ELSE /\ disk' = disk
               /\ run' = [run EXCEPT !.pc = OnSnapshotFailure(run.idx, archive.rows),
                                     !.failure = "snapshot"]
    /\ lock' = "free"
    /\ UNCHANGED <<archive, tasks, csv, loop, poll, reply, client, cancelAck, restarts>>
    /\ UNCHANGED <<recvars, rowvars>>

\* The rows process_excel returns: its local results, rows 1..idx.
Results == ValidRows(run.idx)

\* ------------------------------------------- the coroutine after to_thread
\* A coroutine that goes on to save the results whatever the flag says.
CancelOverlooked(t) == FALSE

\* The coroutine's test of the cancellation flag once to_thread has returned;
\* no await separates it from the status assignment that follows.
CancelledAfterThread(t) == t.cancelled

\* process_task / resume_process_task continue on the event loop once the
\* worker thread has ended.  An exception of the thread reaches the
\* except-clause.  Otherwise the cancellation flag decides: status cancelled
\* and the row count, or progress 95, the result CSV and status completed.
FinishRun ==
    /\ LoopIdle /\ run.pc \in {"returned", "raised"}
    /\ IF run.pc = "raised"
       THEN /\ \E o \in ExceptClause(tasks, disk) :
                  /\ tasks' = o.tasks /\ disk' = o.disk
                  /\ run' = [run EXCEPT !.pc = "done", !.saved = o.ok]
            /\ UNCHANGED <<csv, loop>>
       ELSE IF CancelledAfterThread(tasks)
       THEN /\ tasks' = [tasks EXCEPT !.status = "cancelled",
                                      !.result = Len(tasks.partial_results)]
            /\ loop' = "fin_cancelled"
            /\ run' = [run EXCEPT !.pc = "finishing"]
            /\ UNCHANGED <<csv, disk>>
       ELSE \E saved \in BOOLEAN :
              IF saved
              THEN /\ csv' = save_results(csv, Results)
                   /\ tasks' = [tasks EXCEPT !.status = "completed", !.progress = 100,
                                             !.result = Len(Results)]
                   /\ loop' = "fin_completed"
                   /\ run' = [run EXCEPT !.pc = "finishing"]
                   /\ disk' = disk
              ELSE /\ \E o \in ExceptClause([tasks EXCEPT !.progress = 95], disk) :
                          /\ tasks' = o.tasks /\ disk' = o.disk
                          /\ run' = [run EXCEPT !.pc = "done", !.failure = "finish",
                                                !.saved = o.ok]
                   /\ UNCHANGED <<csv, loop>>
    /\ UNCHANGED <<archive, lock, poll, reply, client, cancelAck, restarts>>
    /\ UNCHANGED <<recvars, rowvars>>

\* The cancelled branch after the status is set: the partial results are
\* written to the result CSV when there are any, then the metadata and the
\* snapshot; a failure of any of the three reaches the except-clause.
FinishCancelled ==
    /\ loop = "fin_cancelled"
    /\ \E csvOk \in BOOLEAN, metaOk \in BOOLEAN, s \in save_task_state(disk, tasks) :
          LET csvDone == csvOk \/ tasks.partial_results = <<>>
              csv1 == IF csvDone THEN save_results(csv, tasks.partial_results) ELSE csv
          IN  /\ csv' = csv1
              /\ IF csvDone /\ metaOk /\ s.ok
                 THEN /\ disk' = s.disk /\ tasks' = tasks
                      /\ run' = [run EXCEPT !.pc = "done"]
                 ELSE \E o \in ExceptClause(tasks, IF csvDone /\ metaOk THEN s.disk ELSE disk) :
                         /\ tasks' = o.tasks /\ disk' = o.disk
                         /\ run' = [run EXCEPT !.pc = "done", !.failure = "finish",
                                               !.saved = o.ok]
    /\ loop' = "idle"
    /\ UNCHANGED <<archive, lock, poll, reply, client, cancelAck, restarts>>
    /\ UNCHANGED <<recvars, rowvars>>

\* The completed branch after the status is set: the metadata is written and
\* the state file is removed; a failure of either reaches the except-clause.
FinishCompleted ==
    /\ loop = "fin_completed"
    /\ \E metaOk \in BOOLEAN, unlinked \in BOOLEAN :
          IF metaOk /\ (unlinked \/ disk = NoFile)
          THEN /\ disk' = NoFile /\ tasks' = tasks
               /\ run' = [run EXCEPT !.pc = "done"]
          ELSE \E o \in ExceptClause(tasks, disk) :
                  /\ tasks' = o.tasks /\ disk' = o.disk
                  /\ run' = [run EXCEPT !.pc = "done", !.failure = "finish",
                                        !.saved = o.ok]
    /\ loop' = "idle"
    /\ UNCHANGED <<archive, lock, csv, poll, reply, client, cancelAck, restarts>>
    /\ UNCHANGED <<recvars, rowvars>>

\* ------------------------------------------------------- request handlers
\* get_task_status, up to the end of its locked block: the task is restored
\* from disk when the registry lacks it (404 when there is no readable
\* snapshot), and new_results is sliced under the lock.
PollBegin ==
    /\ LoopIdle /\ run.kind # "none" /\ lock = "free"
    /\ \E last_index \in 0..MaxRows :
          IF Loaded = NoTask
          THEN /\ reply' = [op |-> "poll", ok |-> FALSE]
               /\ UNCHANGED <<tasks, poll, loop>>
          ELSE /\ tasks' = Loaded
               /\ poll' = [last_index |-> last_index,
                           new_results |-> Slice(Loaded.partial_results, last_index)]
               /\ loop' = "poll"
               /\ reply' = reply
    /\ UNCHANGED <<archive, lock, disk, csv, run, client, cancelAck, restarts>>
    /\ UNCHANGED <<recvars, rowvars>>

\* get_task_status, the response: every other field is read after the lock
\* was released.  The client that sent its cursor takes the rows and the
\* cumulative count.
PollEnd ==
    /\ loop = "poll"
    /\ reply' = [op |-> "poll", ok |-> TRUE, status |-> tasks.status,
                 progress |-> tasks.progress, last_index |-> poll.last_index,
                 new_results |-> poll.new_results,
                 total_results |-> Len(tasks.partial_results),
                 total_rows |-> tasks.total_rows,
                 processed_rows |-> tasks.processed_rows]
    /\ client' = IF poll.last_index = client.cursor
                 THEN [cursor |-> Len(tasks.partial_results),
                       seen |-> client.seen \o poll.new_results]
                 ELSE client
    /\ poll' = NoPoll
    /\ loop' = "idle"
    /\ UNCHANGED <<archive, tasks, lock, disk, csv, run, cancelAck, restarts>>
    /\ UNCHANGED <<recvars, rowvars>>

\* A cancel gate that also lets a cancelled task through.
CancellableOrCancelled(status) == status \in {"processing", "cancelled"}

\* The status test of cancel_task.
Cancellable(status) == status = "processing"

\* A cancel that sets the status itself instead of leaving it to the run.
CancelRequestStopping(t) == [t EXCEPT !.cancelled = TRUE, !.status = "cancelled"]

\* What cancel_task changes in the task record: the flag (and the message).
CancelRequest(t) == [t EXCEPT !.cancelled = TRUE]

\* cancel_task: restore from disk when needed, reject unless processing,
\* else set the flag under the lock and write the snapshot.
cancel_task ==
    /\ LoopIdle /\ run.kind # "none"
    /\ IF Loaded = NoTask
       THEN /\ reply' = [op |-> "cancel", ok |-> FALSE]
            /\ UNCHANGED <<tasks, disk, cancelAck>>
       ELSE IF ~Cancellable(Loaded.status)
       THEN /\ reply' = [op |-> "cancel", ok |-> FALSE]
            /\ tasks' = Loaded
            /\ UNCHANGED <<disk, cancelAck>>
       ELSE /\ lock = "free"
            /\ tasks' = CancelRequest(Loaded)
            /\ disk' = Snapshot(tasks')
            /\ cancelAck' = [acked |-> TRUE, rows |-> Loaded.partial_results,
                             resumed |-> FALSE]
            /\ reply' = [op |-> "cancel", ok |-> TRUE]
    /\ UNCHANGED <<archive, lock, csv, run, loop, poll, client, restarts>>
    /\ UNCHANGED <<recvars, rowvars>>

\* A resume gate that also lets a processing task through.
ResumableOrProcessing(status) == status \in {"cancelled", "error", "processing"}

\* A resume gate that only refuses completed tasks.
ResumableUnlessCompleted(status) == status # "completed"

\* The status test of resume_task, on the status the snapshot records.
Resumable(status) == status \in {"cancelled", "error"}

\* A resume that keeps the rows of the snapshot and counts from zero again.
ResumedTaskCountingAfresh(s) ==
    [status |-> "processing", progress |-> s.progress, result |-> None,
     error |-> FALSE, partial_results |-> s.partial_results,
     total_rows |-> s.total_rows, processed_rows |-> 0, cancelled |-> FALSE]

\* tasks[task_id] as resume_task rebuilds it from the loaded snapshot.
ResumedTask(s) ==
    [status |-> "processing", progress |-> s.progress, result |-> None,
     error |-> FALSE, partial_results |-> s.partial_results,
     total_rows |-> s.total_rows, processed_rows |-> s.processed_rows,
     cancelled |-> FALSE]

\* resume_task: always reads the snapshot; rejects when there is none or its
\* status is not resumable; else replaces the task record and its lock,
\* writes the snapshot and creates the resume_process_task coroutine.
resume_task ==
    /\ LoopIdle /\ run.kind # "none"
    /\ LET s == load_task_state(disk) IN
       IF s = NoTask \/ ~Resumable(s.status)
       THEN /\ reply' = [op |-> "resume", ok |-> FALSE]
            /\ UNCHANGED <<tasks, lock, disk, run, cancelAck>>
       ELSE /\ tasks' = ResumedTask(s)
            /\ lock' = "free"
            /\ disk' = Snapshot(ResumedTask(s))
            /\ run' = [kind |-> "resume", pc |-> "spawned", idx |-> 0, failure |-> "none",
                       saved |-> FALSE]
            /\ cancelAck' = [acked |-> FALSE, rows |-> cancelAck.rows,
                             resumed |-> cancelAck.acked /\ s.status = "cancelled"]
            /\ reply' = [op |-> "resume", ok |-> TRUE]
    /\ UNCHANGED <<archive, csv, loop, poll, client, restarts>>
    /\ UNCHANGED <<recvars, rowvars>>

\* download_result: the result CSV when the file exists, else 404.
download_result ==
    /\ LoopIdle /\ run.kind # "none"
    /\ reply' = [op |-> "download", ok |-> csv.exists, rows |-> csv.rows]
    /\ UNCHANGED <<archive, tasks, lock, disk, csv, run, loop, poll, client,
                   cancelAck, restarts>>
    /\ UNCHANGED <<recvars, rowvars>>

\* The process stops and starts again: the registry, the locks, the
\* coroutine and the worker thread are gone; the files stay.
Restart ==
    /\ restarts < MaxRestarts /\ run.kind \in {"process", "resume"}
    /\ tasks' = NoTask
    /\ lock' = "free"
    /\ run' = [kind |-> "lost", pc |-> "none", idx |-> 0, failure |-> "none",
               saved |-> FALSE]
    /\ loop' = "idle"
    /\ poll' = NoPoll
    /\ cancelAck' = NoAck
    /\ restarts' = restarts + 1
    /\ UNCHANGED <<archive, disk, csv, reply, client>>
    /\ UNCHANGED <<recvars, rowvars>>

Next ==
    \/ upload_file
    \/ Setup
    \/ WorkerCall
    \/ WorkerRow
    \/ CallbackEnter
    \/ CallbackAppend
    \/ CallbackCounters
    \/ CallbackOpen
    \/ CallbackDump
    \/ FinishRun
    \/ FinishCancelled
    \/ FinishCompleted
    \/ PollBegin
    \/ PollEnd
    \/ cancel_task
    \/ resume_task
    \/ download_result
    \/ Restart

Spec == Init /\ [][Next]_vars

\* ------------------------------------------------- the recognizer by itself
\* The recognizer and its cache under any sequence of calls, with the task
\* machine at rest.  A call is recorded in call and in seen.
Calls == seen[<<0>>].calls + seen[<<1>>].calls + seen[<<0, 1>>].calls

\* recognize_image called on an image file (by the row loop for a resolved
\* image, or by recognize_directory).
RecognizeImage ==
    /\ Calls < MaxCalls
    /\ \E name \in Names, bytes \in Contents, exists \in BOOLEAN :
       \E f \in IF exists THEN Faults ELSE {"none"} :
          LET o == recognize_image(cache, name, bytes, exists, readtext(bytes), f) IN
          /\ cache' = o.cache
          /\ call' = [op |-> "recognize", name |-> name, bytes |-> bytes,
                      exists |-> exists, fault |-> f, run |-> restarts, ret |-> o.ret,
                      raised |-> o.raised, engine |-> o.engine, hit |-> o.hit,
                      stored |-> o.stored]
          /\ seen' = IF exists
                     THEN [seen EXCEPT ![bytes] = Record(@, name, restarts, o)]
                     ELSE seen
    /\ UNCHANGED <<taskvars, rowvars>>

\* The process stops and starts again: a new SpeedRecognizer opens the same
\* image_cache.db.
RecognizerRestart ==
    /\ restarts < MaxRestarts
    /\ restarts' = restarts + 1
    /\ UNCHANGED <<archive, tasks, lock, disk, csv, run, loop, poll, reply, client,
                   cancelAck, recvars, rowvars>>

RecognizerInit ==
    /\ archive = [workbook |-> TRUE, rows |-> 0]
    /\ tasks = NoTask
    /\ lock = "free"
    /\ disk = NoFile
    /\ csv = NoCsv
    /\ run = IdleRun
    /\ loop = "idle"
    /\ poll = NoPoll
    /\ reply = NoReply
    /\ client = [cursor |-> 0, seen |-> <<>>]
    /\ cancelAck = NoAck
    /\ restarts = 0
    /\ RecognizerAtRest
    /\ RowPipelineAtRest

RecognizerNext == RecognizeImage \/ RecognizerRestart

RecognizerSpec == RecognizerInit /\ [][RecognizerNext]_vars

\* ------------------------------------------- the row pipeline's functions
\* The task machine before any submit, for the specifications that apply one
\* function of the row pipeline to arguments drawn by their initial predicate.
TaskAtRest ==
    /\ archive = [workbook |-> TRUE, rows |-> 0]
    /\ tasks = NoTask
    /\ lock = "free"
    /\ disk = NoFile
    /\ csv = NoCsv
    /\ run = IdleRun
    /\ loop = "idle"
    /\ poll = NoPoll
    /\ reply = NoReply
    /\ client = [cursor |-> 0, seen |-> <<>>]
    /\ cancelAck = NoAck
    /\ restarts = 0

\* The image resolution of process_excel applied to a row.
ResolveImage ==
    /\ args.op = "correlate" /\ result = NotCalled
    /\ LET r == speed_5g_img(args.row_data, args.cell, args.dispimg_to_image, args.images)
       IN  result' = [called |-> TRUE, op |-> "speed_5g_img", img |-> r.img,
                      fallback |-> r.fallback]
    /\ UNCHANGED <<taskvars, recvars, args>>

\* get_image_for_row applied to a row and the screenshot column.
DescriptorFallback ==
    /\ args.op = "correlate" /\ result = NotCalled
    /\ result' = [called |-> TRUE, op |-> "get_image_for_row",
                  img |-> get_image_for_row(args.row_data, SpeedColumn, args.images),
                  fallback |-> TRUE]
    /\ UNCHANGED <<taskvars, recvars, args>>

CorrelatorInit ==
    /\ TaskAtRest
    /\ RecognizerAtRest
    /\ args \in [op : {"correlate"}, row_data : Rows, cell : SpeedCells,
                 dispimg_to_image : IdTables, images : ImageTables]
    /\ result = NotCalled

CorrelatorNext == ResolveImage \/ DescriptorFallback

CorrelatorSpec == CorrelatorInit /\ [][CorrelatorNext]_vars

\* parse_4g_log and parse_5g_log applied to a readable log file.
Parse4GLog ==
    /\ args.op = "parse_log" /\ result = NotCalled
    /\ LET d == parse_4g_log(args.format, args.log) IN
       result' = [called |-> TRUE, op |-> "parse_4g_log",
                  sample |-> Sample(d.ECI, d.RSRP, d.SINR, d.lon, d.lat)]
    /\ UNCHANGED <<taskvars, recvars, args>>

Parse5GLog ==
    /\ args.op = "parse_log" /\ result = NotCalled
    /\ LET d == parse_5g_log(args.format, args.log) IN
       result' = [called |-> TRUE, op |-> "parse_5g_log",
                  sample |-> Sample(d.NR_CI, d.SS_RSRP, d.SS_SINR, d.lon_5G, d.lat_5G)]
    /\ UNCHANGED <<taskvars, recvars, args>>

ReducerInit ==
    /\ TaskAtRest
    /\ RecognizerAtRest
    /\ \E format \in Formats :
          \/ \E n \in 0..MaxSamples : \E shapes \in [1..n -> RowShapes] :
                args = [op |-> "parse_log", format |-> format,
                        log |-> BoundedLog(n, shapes)]
          \/ \E log \in ExampleLogs :
                args = [op |-> "parse_log", format |-> format, log |-> log]
    /\ result = NotCalled

ReducerNext == Parse4GLog \/ Parse5GLog

ReducerSpec == ReducerInit /\ [][ReducerNext]_vars

\* The location merge of process_excel applied to the data of the two logs.
MergeLocation ==
    /\ args.op = "merge" /\ result = NotCalled
    /\ LET m == merge_location(args.log_5g_data, args.log_4g_data) IN
       result' = [called |-> TRUE, op |-> "merge_location", lon |-> m.lon, lat |-> m.lat]
    /\ UNCHANGED <<taskvars, recvars, args>>

MergeInit ==
    /\ TaskAtRest
    /\ RecognizerAtRest
    /\ args \in [op : {"merge"}, log_5g_data : LogData5G, log_4g_data : LogData4G]
    /\ result = NotCalled

MergeNext == MergeLocation

MergeSpec == MergeInit /\ [][MergeNext]_vars

\* progress_callback called for the next row of a workbook with args.total
\* valid rows (current = 1, 2, ..., total): the progress it sets.
ProgressCallback ==
    /\ args.op = "progress"
    /\ result.called => result.current < args.total
    /\ LET current == IF result.called THEN result.current + 1 ELSE 1 IN
       result' = [called |-> TRUE, op |-> "progress_callback", current |-> current,
                  progress |-> progress_callback_progress(current, args.total)]
    /\ UNCHANGED <<taskvars, recvars, args>>

ProgressInit ==
    /\ TaskAtRest
    /\ RecognizerAtRest
    /\ args \in [op : {"progress"}, total : 1..MaxTotal]
    /\ result = NotCalled

ProgressNext == ProgressCallback

ProgressSpec == ProgressInit /\ [][ProgressNext]_vars

\* ------------------------------------------------------------ properties
Statuses == {"processing", "completed", "cancelled", "error"}

\* The status the snapshot on disk records ("absent" without a readable one).
PersistedStatus == load_task_state(disk).status

\* The worker thread is inside process_excel.
WorkerRunning ==
    run.pc \in {"call", "row", "cb_enter", "cb_append", "cb_counters", "cb_save", "cb_dump"}

AllowedTransitions ==
    {<<"processing", "completed">>, <<"processing", "cancelled">>,
     <<"processing", "error">>, <<"cancelled", "processing">>,
     <<"error", "processing">>}

\* C1: the status of a task changes only from processing to completed,
\* cancelled or error, and from cancelled or error to processing by a resume;
\* a status of completed is never changed by anything.
C1_StatusTransitions ==
    [][(/\ tasks.status \in Statuses
        /\ tasks'.status \in Statuses
        /\ tasks'.status # tasks.status)
       => /\ <<tasks.status, tasks'.status>> \in AllowedTransitions
          /\ (tasks'.status = "processing" => resume_task)
          /\ tasks.status # "completed"]_vars

\* C2: a resume is acknowledged exactly when the persisted status is
\* cancelled or error; otherwise, and so for every task that is processing
\* or completed, it is rejected, starts no worker and changes neither the
\* task record nor its snapshot.
C2_ResumeGate ==
    [][resume_task =>
         /\ (reply'.ok <=> PersistedStatus \in {"cancelled", "error"})
         /\ (tasks.status \in {"processing", "completed"} => ~reply'.ok)
         /\ (~reply'.ok => UNCHANGED <<tasks, run, lock, disk, csv>>)]_vars

\* C2 witness: a resume was rejected while the worker of a processing task
\* was in its row loop with a row already appended.
C2_Witness ==
    /\ reply.op = "resume" /\ ~reply.ok
    /\ tasks.status = "processing" /\ run.pc = "row"
    /\ Len(tasks.partial_results) >= 1

\* C3: a cancel is acknowledged exactly when the status is processing and
\* then the cancellation flag is set; for a completed, cancelled or error
\* task it is rejected and status, flag, result sequence and snapshot stay.
C3_CancelGate ==
    [][cancel_task =>
         /\ (reply'.ok <=> Loaded.status = "processing")
         /\ (reply'.ok => tasks'.cancelled)
         /\ (Loaded.status \in {"completed", "cancelled", "error"} =>
                /\ ~reply'.ok
                /\ tasks'.status = Loaded.status
                /\ tasks'.cancelled = Loaded.cancelled
                /\ tasks'.partial_results = Loaded.partial_results
                /\ disk' = disk)]_vars

\* C3 witness: a cancel was acknowledged for a processing task whose worker
\* is in its row loop, and the flag is set.
C3_Witness ==
    /\ reply.op = "cancel" /\ reply.ok
    /\ tasks.status = "processing" /\ tasks.cancelled
    /\ WorkerRunning

\* C4 (as claimed): after an acknowledged cancel the result sequence stays
\* what it was at the request, the in-flight and later rows are not
\* appended, and the run ends with status cancelled.
C4_CancelEndsCancelled ==
    /\ (cancelAck.acked => tasks.partial_results = cancelAck.rows)
    /\ (cancelAck.acked /\ run.pc = "done" => tasks.status = "cancelled")

\* C4 (amended): after an acknowledged cancel the result sequence stays what
\* it was at the request, and the run ends with status cancelled unless an
\* uncaught failure (in the in-flight row or while finishing) ends it with
\* status error.
C4_CancelStopsAppending ==
    /\ (cancelAck.acked => tasks.partial_results = cancelAck.rows)
    /\ (cancelAck.acked /\ run.pc = "done" =>
            tasks.status = IF run.failure = "none" THEN "cancelled" ELSE "error")

\* C4 witness: a run cancelled between its rows has ended with status
\* cancelled and holds the rows appended before the request.
C4_Witness ==
    /\ cancelAck.acked /\ run.pc = "done" /\ run.kind = "process"
    /\ tasks.status = "cancelled"
    /\ Len(cancelAck.rows) >= 1 /\ Len(cancelAck.rows) < archive.rows
    /\ run.idx = Len(cancelAck.rows) + 1

IsPrefix(p, q) == Len(p) <= Len(q) /\ SubSeq(q, 1, Len(p)) = p

\* C5: when a task cancelled after N rows has been resumed and the resumed
\* run has ended, the result sequence starts with the N rows it had at the
\* cancellation and is as long as the workbook has valid rows.
C5_ResumeSafety ==
    (cancelAck.resumed /\ run.kind = "resume" /\ run.pc = "done")
    => /\ IsPrefix(cancelAck.rows, tasks.partial_results)
       /\ Len(tasks.partial_results) = archive.rows

NoDuplicates(q) == \A i, j \in 1..Len(q) : i # j => q[i] # q[j]

\* C6: no row occurs twice in the result sequence, in memory or in the
\* snapshot, whatever cancels and resumes happened.
C6_NoRowTwice ==
    /\ (tasks # NoTask => NoDuplicates(tasks.partial_results))
    /\ (load_task_state(disk) # NoTask => NoDuplicates(disk.partial_results))

\* C6 witness: a task cancelled after at least one row was resumed and the
\* resumed run has ended.
C6_Witness ==
    /\ cancelAck.resumed /\ run.kind = "resume" /\ run.pc = "done"
    /\ Len(tasks.partial_results) >= 1
    /\ Len(tasks.partial_results) < archive.rows

\* C7: in a poll response whose last-seen-count is not above the cumulative
\* count, the cumulative count is the last-seen-count plus the number of new
\* rows; and, before any restart, the poller that feeds the cumulative count
\* back has received exactly the first rows of the result sequence, in order.
C7_PollCursor ==
    /\ (reply.op = "poll" /\ reply.ok /\ reply.last_index <= reply.total_results
            => reply.total_results = reply.last_index + Len(reply.new_results))
    /\ (restarts = 0 /\ tasks # NoTask /\ client.cursor <= Len(tasks.partial_results)
            => client.seen = SubSeq(tasks.partial_results, 1, client.cursor))

\* The handlers see the task between the steps of the coroutine, never
\* inside its last step.
AtRest == loop = "idle" /\ tasks # NoTask

C9_FailureEndsInError ==
    [][/\ (run'.pc = "raised" /\ run.pc # "raised" /\ run.failure = "none"
              => tasks'.partial_results = tasks.partial_results)
       /\ (run.pc = "raised" /\ run'.pc = "done"
              => /\ tasks'.status = "error"
                 /\ tasks'.partial_results = tasks.partial_results)
       /\ (run.pc = "spawned" /\ ~archive.workbook /\ run' # run /\ tasks' # NoTask
              => /\ run'.pc = "done" /\ run'.idx = 0
                 /\ tasks'.status = "error"
                 /\ tasks'.partial_results = tasks.partial_results
                 /\ tasks'.processed_rows = tasks.processed_rows)]_vars

\* C9 witness: a first run that failed in its second row has ended with
\* status error and still holds the first row.
C9_Witness ==
    /\ run.kind = "process" /\ run.pc = "done" /\ run.failure = "row"
    /\ tasks.status = "error"
    /\ tasks.partial_results = ValidRows(1)

\* C10: once writing the snapshot has failed in the callback, the run
\* appends and processes no further row, it ends with status error, and a
\* poll answered after that reports status error.
C10_SnapshotFailureIsFatal ==
    [][(run.failure = "snapshot" /\ tasks' # NoTask /\ run'.kind = run.kind)
       => /\ run'.failure = "snapshot"
          /\ run'.idx = run.idx
          /\ run'.pc \in {"raised", "done"}
          /\ tasks'.partial_results = tasks.partial_results
          /\ (run'.pc = "done" => tasks'.status = "error")
          /\ (PollEnd /\ run.pc = "done" => reply'.status = "error")]_vars

\* C10 witness: the snapshot write failed after the first of two rows and a
\* poll has reported status error with that one row.
C10_Witness ==
    /\ run.failure = "snapshot" /\ run.pc = "done" /\ run.idx = 1
    /\ archive.rows = 2
    /\ reply.op = "poll" /\ reply.ok /\ reply.status = "error"
    /\ reply.total_results = 1

\* C11: a failure local to one row (a missing image, a missing or unparsable
\* log, absent or malformed image-metadata streams, a failure of the digest,
\* the cache lookup, the engine call or the cache store) never ends the run:
\* the task's status does not become error because of a row.
C11_RowFailureAbsorbed ==
    run.failure = "row" => run.pc # "raised" /\ tasks.status # "error"

\* A run is in progress: the task is processing and its coroutine exists.
DuringRun ==
    tasks # NoTask /\ tasks.status = "processing" /\ run.kind \in {"process", "resume"}

\* C12: during a run the snapshot on disk is readable and its result
\* sequence is a prefix of the in-memory one, shorter by at most one row, and
\* equal to it whenever the task's lock is not held.
C12_PersistedAfterEveryRow ==
    DuringRun =>
        /\ load_task_state(disk) # NoTask
        /\ IsPrefix(disk.partial_results, tasks.partial_results)
        /\ Len(tasks.partial_results) - Len(disk.partial_results) <= 1
        /\ (lock = "free" => disk.partial_results = tasks.partial_results)

C14_PrefixOfValidRows ==
    /\ [](/\ (tasks # NoTask =>
                IsPrefix(tasks.partial_results, ValidRows(archive.rows)))
          /\ (load_task_state(disk) # NoTask =>
                IsPrefix(disk.partial_results, ValidRows(archive.rows))))
    /\ [][(/\ tasks # NoTask /\ tasks' # NoTask
           /\ tasks'.partial_results # tasks.partial_results)
          => tasks'.partial_results =
                Append(tasks.partial_results,
                       ValidRows(archive.rows)[Len(tasks.partial_results) + 1])]_vars

\* C14 witness: the worker has appended both rows of a two-row workbook, in
\* order, and the snapshot holds them.
C14_Witness ==
    /\ DuringRun /\ archive.rows = 2
    /\ tasks.partial_results = <<RowResult(1), RowResult(2)>>
    /\ disk = Snapshot(tasks)

\* C15: at most one worker runs the row loop of the task at any time: a
\* coroutine, and with it a worker thread, is created only when the run
\* before it is over, whatever submits, cancels, resumes and polls occur.
C15_SingleWorker ==
    [][(run'.pc = "spawned" /\ run # run')
       => /\ ~WorkerRunning
          /\ run.pc \in {"none", "done"}
          /\ lock = "free"]_vars

\* C15 witness: the worker of a resumed run has been started after the first
\* run, which had appended a row, was over.
C15_Witness ==
    /\ run.kind = "resume" /\ run.pc = "call"
    /\ reply.op = "resume" /\ reply.ok
    /\ Len(tasks.partial_results) >= 1

\* C16: a handler that reads the state file while the worker is running
\* finds a complete snapshot, the one before or the one after the write in
\* progress, never an empty or truncated record.
C16_WholeRecordReplace ==
    [][(resume_task /\ WorkerRunning) =>
          /\ disk # Partial
          /\ load_task_state(disk) # NoTask]_vars

StoredReading(row) ==
    [upload_speed |-> row.upload_speed, download_speed |-> row.download_speed]

\* A recognize_image call on an existing file whose content digest has a
\* row in the cache.
CallOnCachedContent ==
    RecognizeImage /\ call'.exists /\ MD5(call'.bytes) \in DOMAIN cache

\* C18 (as claimed): when the cache holds a row for the digest of the
\* image's bytes, recognize_image returns the stored pair and does not
\* invoke the engine, under whatever name the bytes are.
C18_HitReturnsStored ==
    [][CallOnCachedContent =>
          /\ ~call'.raised /\ ~call'.engine
          /\ call'.ret = StoredReading(cache[MD5(call'.bytes)])]_vars

\* C18 (amended): when the cache holds a row for the digest of the image's
\* bytes and the call computes the digest and reads the cache, it returns
\* the stored pair without invoking the engine and leaves the cache as it
\* is, under whatever name the bytes are; when the digest cannot be computed
\* the cache is bypassed and the engine is invoked; when the lookup fails
\* the call raises and the engine is not invoked.
C18_HitReturnsStoredWhenRead ==
    [][CallOnCachedContent =>
          /\ cache' = cache
          /\ (call'.fault \notin {"digest", "lookup"} =>
                /\ call'.hit /\ ~call'.raised /\ ~call'.engine
                /\ call'.ret = StoredReading(cache[MD5(call'.bytes)]))
          /\ (call'.fault = "digest" => call'.engine /\ ~call'.hit)
          /\ (call'.fault = "lookup" => call'.raised /\ ~call'.engine)]_vars

\* C18 witness: the reading stored by a call on one file was returned from
\* the cache, in the same process run, to a call on the same bytes under
\* the other name.
C18_Witness ==
    /\ call.op = "recognize" /\ call.hit /\ call.bytes = <<0, 1>>
    /\ call.run = seen[<<0, 1>>].since
    /\ seen[<<0, 1>>].names = Names /\ seen[<<0, 1>>].stored = 1
    /\ seen[<<0, 1>>].invoked = 1
    /\ call.ret = [upload_speed |-> 30, download_speed |-> None]

\* A recognize_image call on an existing file from whose text extract_speed
\* gets neither value.
CallOnSpeedless ==
    RecognizeImage /\ call'.exists /\ extract_speed(readtext(call'.bytes)) = Absent

\* The cache holds a row with both values absent for the digest of bytes.
AbsentStored(c, bytes) ==
    MD5(bytes) \in DOMAIN c /\ StoredReading(c[MD5(bytes)]) = Absent

EngineFailed(c) ==
    c.op = "recognize" /\ c.exists /\ c.engine /\ c.fault = "engine"

\* C20: when the engine invocation fails, recognize_image returns both
\* values absent and leaves the cache as it was, and the next call on the
\* same bytes invokes the engine again.
C20_EngineFailureNotCached ==
    [][RecognizeImage =>
          /\ (EngineFailed(call') =>
                call'.ret = Absent /\ ~call'.raised /\ cache' = cache)
          /\ (EngineFailed(call) /\ call'.exists /\ call'.bytes = call.bytes =>
                call'.engine)]_vars

\* The row's cell names an identifier the identifier table holds.
IdResolves(a) ==
    a.cell.column /\ a.cell.dispimg /\ a.cell.id \in DOMAIN a.dispimg_to_image

\* C21: when the row's cell refers to an identifier present in the
\* identifier table and a descriptor match exists as well, the image of the
\* row is the one the identifier table gives; and the descriptors are
\* consulted only without an identifier reference or when its lookup misses.
C21_IdBeforeDescriptor ==
    (result.called /\ result.op = "speed_5g_img") =>
        /\ (IdResolves(args) =>
                result.img = args.dispimg_to_image[args.cell.id])
        /\ (result.fallback => ~IdResolves(args))
        /\ (~IdResolves(args) /\ args.cell.column => result.fallback)

\* C21 witness: the identifier table gives one image and a descriptor of the
\* table matches the row with another image; the identifier's image was
\* returned and the descriptors were not consulted.
C21_Witness ==
    /\ result.called /\ result.op = "speed_5g_img" /\ IdResolves(args)
    /\ get_image_for_row(args.row_data, SpeedColumn, args.images) \notin
            {NoImage, args.dispimg_to_image[args.cell.id]}
    /\ result.img = args.dispimg_to_image[args.cell.id]
    /\ ~result.fallback

\* A log parser has returned.
Parsed == result.called /\ result.op \in {"parse_4g_log", "parse_5g_log"}

\* The rows of a log with cell identity, power and SINR, with and without
\* both coordinates; the partition the representative is to come from.
Complete(log) ==
    {i \in 1..Len(log) : log[i].ci # None /\ log[i].rsrp # None /\ log[i].sinr # None}
Located(log) == {i \in Complete(log) : log[i].lon # None /\ log[i].lat # None}
Unlocated(log) == Complete(log) \ Located(log)
Partition(log) == IF Located(log) # {} THEN Located(log) ELSE Unlocated(log)
NoSample == Sample(None, None, None, None, None)

\* C22: in both formats and for both generations, the representative sample
\* is a row with both coordinates whenever an eligible row has them, however
\* many rows have none; a row without location is taken only when no
\* eligible row has one, and nothing when no row is eligible.
C22_LocationPreferred ==
    Parsed =>
        /\ (Located(args.log) # {} =>
                /\ result.sample.ci \in Located(args.log)
                /\ result.sample = args.log[result.sample.ci])
        /\ (Located(args.log) = {} /\ Unlocated(args.log) # {} =>
                /\ result.sample.ci \in Unlocated(args.log)
                /\ result.sample = args.log[result.sample.ci])
        /\ (Complete(args.log) = {} => result.sample = NoSample)
        /\ (args.log = OneInTen => result.sample.ci = 1)

\* C22 witness: parse_5g_log on a csv log with one located row and two
\* eligible rows without location returned the located row.
C22_Witness ==
    /\ Parsed /\ result.op = "parse_5g_log" /\ args.format = "csv"
    /\ Cardinality(Located(args.log)) = 1
    /\ Cardinality(Unlocated(args.log)) = 2
    /\ result.sample.ci \in Located(args.log)

\* The rows of the partition with less power than row i, and with at most
\* its power: row i can stand at 0-based position k of the sorted partition
\* exactly when Below has at most k rows and AtMost more than k.
Below(log, i) == {j \in Partition(log) : log[j].rsrp < log[i].rsrp}
AtMost(log, i) == {j \in Partition(log) : log[j].rsrp <= log[i].rsrp}
StandsAt(log, i, k) ==
    Cardinality(Below(log, i)) <= k /\ k < Cardinality(AtMost(log, i))

\* C23: the fields returned are those of the row at 0-based position
\* floor(count / 2) of the chosen partition sorted ascending by power: value
\* 3 for the powers 1, 2, 3, 4 and -90 for -90, -95, -80; the power returned
\* is a row's own, not an average.
C23_MedianAtHalfCount ==
    Parsed =>
        /\ (Partition(args.log) # {} =>
                /\ result.sample.ci \in Partition(args.log)
                /\ result.sample = args.log[result.sample.ci]
                /\ StandsAt(args.log, result.sample.ci,
                            Cardinality(Partition(args.log)) \div 2))
        /\ (args.log = LocatedLog(<<1, 2, 3, 4>>) => result.sample.rsrp = 3)
        /\ (args.log = LocatedLog(<<-90, -95, -80>>) => result.sample.rsrp = -90)

\* C23 witness: parse_4g_log on the csv log with powers 1, 2, 3, 4, all
\* located, returned the row with power 3.
C23_Witness ==
    /\ Parsed /\ result.op = "parse_4g_log" /\ args.format = "csv"
    /\ args.log = LocatedLog(<<1, 2, 3, 4>>)
    /\ result.sample = Sample(3, 3, Sinr, Longitude, Latitude)

\* Row j has the power of row i and comes before it in the file.
log_rsrp_tie(log, i, j) == log[j].rsrp = log[i].rsrp /\ j < i

\* The chosen partition has an even, positive number of rows.
EvenPartition(log) ==
    Partition(log) # {} /\ Cardinality(Partition(log)) % 2 = 0

\* C24 (as claimed): for an even count the row returned is the lower of the
\* two middle rows of the sorted partition, the one at position count/2 - 1.
C24_LowerMiddleOfEven ==
    (Parsed /\ EvenPartition(args.log)) =>
        StandsAt(args.log, result.sample.ci,
                 Cardinality(Partition(args.log)) \div 2 - 1)

\* C24 (amended): for an even count the row returned is the upper of the two
\* middle rows of the sorted partition, the one at position count/2: half of
\* the rows stand before it, and among rows of equal power the later in the
\* file stands later.
C24_UpperMiddleOfEven ==
    (Parsed /\ EvenPartition(args.log)) =>
        LET i == result.sample.ci
            before == Below(args.log, i) \cup
                        {j \in AtMost(args.log, i) : log_rsrp_tie(args.log, i, j)}
        IN  /\ i \in Partition(args.log)
            /\ Cardinality(before) = Cardinality(Partition(args.log)) \div 2

\* C24 witness: parse_4g_log on an xlsx log whose chosen partition has two
\* rows of different power returned the row with the greater power.
C24_Witness ==
    /\ Parsed /\ result.op = "parse_4g_log" /\ args.format = "xlsx"
    /\ Cardinality(Partition(args.log)) = 2
    /\ \E j \in Partition(args.log) : args.log[j].rsrp < result.sample.rsrp

\* The keys of a row: the timestamp+phone-number text before "--" of each
\* of its log-filename fields, merged or legacy, that has one.
RowKeys(row_data) ==
    {TimePhone(FieldsWithMerged(row_data)[n]) : n \in 1..6} \ {EmptyText}

\* The entries of the descriptor table whose descriptor contains a key of
\* the row and the keyword of the screenshot column.
MatchingEntries(row_data, images) ==
    {i \in 1..Len(images) :
        /\ Contains(images[i].descr, Keyword5G)
        /\ \E key \in RowKeys(row_data) : Contains(images[i].descr, key)}

\* C25: get_image_for_row returns an image exactly when some descriptor
\* contains both the key of one of the row's log-filename fields, merged or
\* legacy, and the keyword of the screenshot column; the image returned is
\* that of such a descriptor, and without one the row gets no image.
C25_DescriptorFallback ==
    (result.called /\ result.op = "get_image_for_row") =>
        LET matching == MatchingEntries(args.row_data, args.images) IN
        /\ (result.img # NoImage <=> matching # {})
        /\ (result.img # NoImage =>
                \E i \in matching : args.images[i].img = result.img)

\* The 5G data, and the 4G data, of the row carry both coordinates.
Located5G(a) ==
    a.log_5g_data # NoLogData /\ a.log_5g_data.lon_5G # None /\ a.log_5g_data.lat_5G # None
Located4G(a) ==
    a.log_4g_data # NoLogData /\ a.log_4g_data.lon # None /\ a.log_4g_data.lat # None

\* C26: the merged row's location is the pair of the 5G sample when both of
\* its values are present, otherwise the pair of the 4G sample when both of
\* its values are present, otherwise absent; so the row has a longitude
\* exactly when it has a latitude.
C26_LocationMerge ==
    (result.called /\ result.op = "merge_location") =>
        /\ (Located5G(args) =>
                /\ result.lon = args.log_5g_data.lon_5G
                /\ result.lat = args.log_5g_data.lat_5G)
        /\ (~Located5G(args) /\ Located4G(args) =>
                /\ result.lon = args.log_4g_data.lon
                /\ result.lat = args.log_4g_data.lat)
        /\ (~Located5G(args) /\ ~Located4G(args) =>
                result.lon = None /\ result.lat = None)
        /\ (result.lon # None <=> result.lat # None)

\* C26 witness: the 5G sample has a longitude and no latitude, the 4G sample
\* has both with another longitude, and the row has the 4G pair.
C26_Witness ==
    /\ result.called /\ result.op = "merge_location"
    /\ args.log_5g_data # NoLogData /\ args.log_4g_data # NoLogData
    /\ args.log_5g_data.lon_5G = Longitude /\ args.log_5g_data.lat_5G = None
    /\ args.log_4g_data.lon = Longitude + 1 /\ args.log_4g_data.lat = Latitude
    /\ result.lon = Longitude + 1 /\ result.lat = Latitude

\* C27: in a run started by a submit the progress after k of n valid rows is
\* 15 + floor(75 * k / n), so it lies between 15 and 90 while rows are
\* processed.
C27_ProgressFormula ==
    (result.called /\ result.op = "progress_callback") =>
        /\ result.progress = 15 + ((75 * result.current) \div args.total)
        /\ result.progress \in 15..90

\* C28: whenever the task's lock is free, processed_rows equals the length of
\* partial_results and does not exceed total_rows, after a cancel and after
\* a resume too.
C28_CountersAgree ==
    (tasks # NoTask /\ lock = "free") =>
        /\ tasks.processed_rows = Len(tasks.partial_results)
        /\ tasks.processed_rows <= tasks.total_rows

\* A resumed task that kept the rows of the run a cancel stopped.
C28_Witness ==
    /\ tasks # NoTask /\ lock = "free"
    /\ run.kind = "resume" /\ cancelAck.resumed
    /\ tasks.processed_rows >= 1

\* C29: a run in which a cancel was acknowledged never has status completed
\* and ends with status cancelled or error, also when the cancel came after
\* the last row was appended and before the coroutine finished the run.
C29_CancelNeverCompletes ==
    cancelAck.acked =>
        /\ tasks.status # "completed"
        /\ run.pc = "done" => tasks.status \in {"cancelled", "error"}

\* A cancel acknowledged after the callback of the last row, in a run that
\* has ended since.
C29_Witness ==
    /\ cancelAck.acked /\ run.kind = "process" /\ run.pc = "done"
    /\ archive.rows >= 1 /\ Len(cancelAck.rows) = archive.rows
    /\ tasks.status = "cancelled"

\* The snapshot records status processing and the restart took the worker.
Interrupted ==
    /\ run.kind = "lost"
    /\ load_task_state(disk) # NoTask /\ disk.status = "processing"

\* C30: a task whose snapshot records status processing and whose worker a
\* restart took never leaves status processing: a resume is rejected, a
\* cancel is acknowledged and sets the flag in the record and the snapshot,
\* and the status stays processing in both.
C30_InterruptedStaysProcessing ==
    [][Interrupted =>
        /\ Interrupted'
        /\ tasks' # NoTask => tasks'.status = "processing"
        /\ resume_task => ~reply'.ok /\ tasks' = tasks /\ disk' = disk
        /\ cancel_task => /\ reply'.ok
                          /\ tasks'.cancelled /\ disk'.cancelled
                          /\ tasks'.status = "processing"]_vars

\* After the restart a cancel was acknowledged and set the flag, and a resume
\* was then rejected.
C30_Witness ==
    /\ Interrupted
    /\ cancelAck.acked /\ tasks # NoTask /\ tasks.cancelled /\ disk.cancelled
    /\ reply = [op |-> "resume", ok |-> FALSE]
====
